---- MODULE Spec2Model ----
(***************************************************************************)
(* IGDB MCP server: the IGDBClient (cached OAuth token, searchGames,       *)
(* getGameDetails) and the CallToolRequestSchema handler that exposes it.  *)
(*                                                                         *)
(* An invocation of the handler is an async function: each action below    *)
(* is one synchronous stretch of it, from one await to the next.  Two      *)
(* invocation slots run concurrently on the one IGDBClient instance and    *)
(* share its tokenData field.  Time is the value of Date.now(), in ms.     *)
(***************************************************************************)
EXTENDS Integers, Sequences, FiniteSets, TLC

VARIABLES
    now,        \* Date.now(), milliseconds
    tokenData,  \* IGDBClient.tokenData: Null or Some([token, expiresAt])
    inv,        \* per invocation: the handler's and the client's locals
    hist,       \* per invocation: what it has sent and seen so far
    applied     \* the pair computed from the token response applied last, or Null

vars == <<now, tokenData, inv, hist, applied>>

----------------------------------------------------------------------------
(* Bounds of the model *)

MaxTicks == 3
TickMs == 50000
MaxQueryLen == 2
MaxRecords == 2

(* Constants of the program *)

SafetyMarginMs == 300000
MsPerSecond == 1000
DefaultLimit == 10
MaxLimit == 50

----------------------------------------------------------------------------
(* Values *)

Null == <<>>
Some(v) == <<v>>
Val(o) == o[1]

Inv == {1, 2}

DQ == "\""
BS == "\\"
Alphabet == {"a", DQ, BS}

RECURSIVE StringsUpTo(_)
StringsUpTo(n) ==
    IF n = 0 THEN {<<>>}
    ELSE LET shorter == StringsUpTo(n - 1)
         IN  shorter \cup {Append(s, c) : s \in shorter, c \in Alphabet}

Tokens == {"tokA", "tokB"}
ExpiresInValues == {60, 400}
OAuthTokens == [access_token : Tokens, expires_in : ExpiresInValues]
IdpFailures ==
    {[status |-> 401, text |-> "invalid_client"],
     [status |-> 503, text |-> "unavailable"]}
ApiFailures == [status : {429}, text : {"Too Many Requests"}]
GameIds == {7, 1920}
Games == [id : GameIds]

RECURSIVE SeqsUpTo(_, _)
SeqsUpTo(S, n) ==
    IF n = 0 THEN {<<>>}
    ELSE LET shorter == SeqsUpTo(S, n - 1)
         IN  shorter \cup {Append(s, x) : s \in shorter, x \in S}

GameArrays == SeqsUpTo(Games, MaxRecords)

\* A credential is usable at time t when one is held and t is more than the
\* five-minute margin before its expiresAt.  hist records it of the cached
\* credential at the moment an operation starts.
MoreThanMarginLeft(cred, t) ==
    cred # Null /\ t + 300000 < Val(cred).expiresAt

----------------------------------------------------------------------------
(* IGDBClient *)

\* the margin taken in seconds: no cached credential is ever served
TokenUsableMarginInSeconds(td, t) ==
    /\ td # Null
    /\ t < Val(td).expiresAt - SafetyMarginMs * MsPerSecond

\* the margin left out: a credential is served until it expires
TokenUsableNoMargin(td, t) ==
    /\ td # Null
    /\ t < Val(td).expiresAt

\* if (this.tokenData && Date.now() < this.tokenData.expiresAt - 300000)
TokenUsable(td, t) ==
    /\ td # Null
    /\ t < Val(td).expiresAt - SafetyMarginMs

\* this.tokenData = { token: data.access_token, expiresAt: Date.now() + data.expires_in * 1000 }
NewTokenData(data, t) ==
    Some([token |-> data.access_token,
          expiresAt |-> t + data.expires_in * MsPerSecond])

\* `Failed to authenticate with Twitch: ${response.status} ${errorText}`
AuthErrorMessage(status, text) ==
    <<"Failed to authenticate with Twitch: ", ToString(status), " ", text>>

\* `IGDB API error: ${response.status} ${errorText}`
ApiErrorMessage(status, text) ==
    <<"IGDB API error: ", ToString(status), " ", text>>

\* fetch() rejected: the TypeError's message
FetchFailedMessage == <<"fetch failed">>

\* query.replace(/"/g, '\\"')
RECURSIVE EscapeQuotes(_)
EscapeQuotes(q) ==
    IF q = <<>> THEN <<>>
    ELSE IF Head(q) = DQ THEN <<BS, DQ>> \o EscapeQuotes(Tail(q))
    ELSE <<Head(q)>> \o EscapeQuotes(Tail(q))

\* search "${query.replace(/"/g, '\\"')}"; fields ...; limit ${limit};
SearchBody(query, limit) ==
    [clause |-> "search",
     literal |-> <<DQ>> \o EscapeQuotes(query) \o <<DQ>>,
     limit |-> limit,
     id |-> 0]

\* where id = ${gameId}; fields ...;
DetailsBody(gameId) ==
    [clause |-> "where", literal |-> <<>>, limit |-> 0, id |-> gameId]

NoBody == [clause |-> "none", literal |-> <<>>, limit |-> 0, id |-> 0]

\* the last record taken for the first
LastOrNull(gameArray) ==
    IF Len(gameArray) > 0 THEN Some(gameArray[Len(gameArray)]) ELSE Null

\* return gameArray.length > 0 ? gameArray[0] : null
FirstOrNull(gameArray) ==
    IF Len(gameArray) > 0 THEN Some(gameArray[1]) ELSE Null

----------------------------------------------------------------------------
(* The tool handler's pure parts *)

Min(a, b) == IF a < b THEN a ELSE b

\* (args?.limit as number) || 10 : undefined and 0 are falsy
OrDefault(limitArg) ==
    IF limitArg = Null \/ Val(limitArg) = 0 THEN DefaultLimit ELSE Val(limitArg)

\* Math.min((args?.limit as number) || 10, 50)
ClampLimit(limitArg) == Min(OrDefault(limitArg), MaxLimit)

\* !query : undefined and "" are falsy
QueryMissing(queryArg) == queryArg = Null \/ Val(queryArg) = <<>>

\* !gameId : undefined and 0 are falsy
GameIdMissing(idArg) == idArg = Null \/ Val(idArg) = 0

\* { content: [{ type: "text", text }], isError: true } with a literal text
RequiredResult(param) ==
    [isError |-> TRUE, text |-> <<"Error: ", param, " parameter is required">>]

\* the catch block: text: `Error: ${errorMessage}`, isError: true
CaughtResult(errorMessage) ==
    [isError |-> TRUE, text |-> <<"Error: ">> \o errorMessage]

\* text: `Unknown tool: ${name}`, isError: true
UnknownToolResult(name) ==
    [isError |-> TRUE, text |-> <<"Unknown tool: ", name>>]

\* formatGame / formatGameDetails, for a record that carries only its id
FormatGame(game) == <<"**game** (ID: ", ToString(game.id), ")">>

FormatGameDetails(game) == <<"# game", "**IGDB ID:** ", ToString(game.id)>>

RECURSIVE JoinGames(_)
JoinGames(games) ==
    IF Len(games) = 1 THEN FormatGame(games[1])
    ELSE FormatGame(games[1]) \o <<"\n\n---\n\n">> \o JoinGames(Tail(games))

\* the search_games branch after searchGames has returned
SearchResult(query, games) ==
    IF Len(games) = 0
    THEN [isError |-> FALSE,
          text |-> <<"No games found matching \"">> \o query \o <<"\"">>]
    ELSE [isError |-> FALSE,
          text |-> <<"Found ", ToString(Len(games)), " game(s) matching \"">>
                   \o query \o <<"\":\n\n">> \o JoinGames(games)]

\* the get_game_details branch after getGameDetails has returned
DetailsResult(gameId, game) ==
    IF game = Null
    THEN [isError |-> FALSE, text |-> <<"No game found with ID ", ToString(gameId)>>]
    ELSE [isError |-> FALSE, text |-> FormatGameDetails(Val(game))]

----------------------------------------------------------------------------
(* Tool requests *)

Optional(S) == {Null} \cup {Some(x) : x \in S}

LimitValues == {-5, 0, 1, 50, 51}

SearchRequests ==
    [name : {"search_games"},
     args : [query : Optional(StringsUpTo(MaxQueryLen)),
             limit : Optional(LimitValues),
             game_id : {Null}]]

DetailsRequests ==
    [name : {"get_game_details"},
     args : [query : {Null}, limit : {Null}, game_id : Optional({0} \cup GameIds)]]

UnknownRequests ==
    [name : {"list_games"}, args : [query : {Null}, limit : {Null}, game_id : {Null}]]

AllRequests == SearchRequests \cup DetailsRequests \cup UnknownRequests

\* the requests two concurrent invocations are driven with
ConcurrentRequests ==
    {r \in AllRequests :
        \/ r.name = "search_games" /\ r.args.query = Some(<<"a">>) /\ r.args.limit = Null
        \/ r.name = "get_game_details" /\ r.args.game_id = Some(7)}

NoRequest == [name |-> "", args |-> [query |-> Null, limit |-> Null, game_id |-> Null]]
IdleInv ==
    [pc |-> "idle", req |-> NoRequest, body |-> NoBody, token |-> Null,
     ret |-> Null, result |-> Null]

IdleHist ==
    [log |-> <<>>,             \* the operation's events, in order
     usableAtStart |-> FALSE,  \* MoreThanMarginLeft(tokenData, now) when it started
     cacheAtStart |-> Null,    \* tokenData when it started; forgotten (Null) once
                               \* the operation stores a credential itself
     disturbed |-> FALSE,      \* another invocation has stored a credential since
     cred |-> Null,            \* the credential its token comes from
     idpFailure |-> Null,      \* the non-success answer of the token endpoint
     sent |-> Null,            \* the data request as sent
     answer |-> Null]          \* the records of the data service's 200 answer

Init ==
    /\ now = 0
    /\ tokenData = Null
    /\ inv = [i \in Inv |-> IdleInv]
    /\ hist = [i \in Inv |-> IdleHist]
    /\ applied = Null

----------------------------------------------------------------------------
(* One invocation of the CallToolRequestSchema handler.  An action is a    *)
(* stretch of the async handler that runs without interruption.  The two   *)
(* awaits on a response (fetch, then response.json() or response.text())   *)
(* touch nothing shared in between and are taken as one step, at the time  *)
(* the second one settles.                                                 *)

\* the handler returns `result` before anything is awaited
ReturnAtOnce(i, r, result) ==
    /\ inv' = [inv EXCEPT ![i] =
                 [IdleInv EXCEPT !.pc = "done", !.req = r, !.result = Some(result)]]
    /\ hist' = [hist EXCEPT ![i] =
                 [IdleHist EXCEPT !.usableAtStart = MoreThanMarginLeft(tokenData, now),
                                 !.cacheAtStart = tokenData]]
    /\ UNCHANGED <<now, tokenData, applied>>

\* an Error thrown inside the try block reaches the catch block
Throw(i, errorMessage) ==
    inv' = [inv EXCEPT ![i].pc = "done",
                       ![i].result = Some(CaughtResult(errorMessage))]

Logged(i, event) == [hist EXCEPT ![i].log = Append(@, event)]

\* IGDBClient.request up to its first suspension: getToken's cache check and,
\* when the cache does not serve, the POST to the token endpoint
BeginRequest(i, r, body) ==
    LET hit == TokenUsable(tokenData, now)
    IN  /\ inv' = [inv EXCEPT ![i] =
                     [IdleInv EXCEPT
                        !.pc = IF hit THEN "haveToken" ELSE "awaitIdp",
                        !.req = r,
                        !.body = body,
                        !.token = IF hit THEN Some(Val(tokenData).token) ELSE Null]]
        /\ hist' = [hist EXCEPT ![i] =
                     [IdleHist EXCEPT
                        !.log = IF hit THEN <<"check">> ELSE <<"check", "idpReq">>,
                        !.usableAtStart = MoreThanMarginLeft(tokenData, now),
                        !.cacheAtStart = tokenData,
                        !.cred = IF hit THEN tokenData ELSE Null]]
        /\ UNCHANGED <<now, tokenData, applied>>

\* the handler is entered with request r and runs to its first suspension
Call(i, r) ==
    /\ inv[i].pc = "idle"
    /\ IF r.name = "search_games"
       THEN LET limit == ClampLimit(r.args.limit)
            IN  IF QueryMissing(r.args.query)
                THEN ReturnAtOnce(i, r, RequiredResult("query"))
                ELSE BeginRequest(i, r, SearchBody(Val(r.args.query), limit))
       ELSE IF r.name = "get_game_details"
       THEN IF GameIdMissing(r.args.game_id)
            THEN ReturnAtOnce(i, r, RequiredResult("game_id"))
            ELSE BeginRequest(i, r, DetailsBody(Val(r.args.game_id)))
       ELSE ReturnAtOnce(i, r, UnknownToolResult(r.name))

\* a swap-if-newer store: the pair that expires later is kept
KeepLaterExpiry(old, new) ==
    IF old # Null /\ Val(old).expiresAt > Val(new).expiresAt THEN old ELSE new

\* this.tokenData = { ... } : the assignment is unconditional
StoreToken(old, new) == new

\* the token endpoint answers 200 with `data`: the credential is stored and
\* getToken returns this.tokenData.token
IdpSuccess(i, data) ==
    LET new == NewTokenData(data, now)
        stored == StoreToken(tokenData, new)
    IN  /\ tokenData' = stored
        /\ applied' = new
        /\ inv' = [inv EXCEPT ![i].pc = "haveToken",
                              ![i].token = Some(Val(stored).token)]
        /\ hist' = [j \in Inv |->
                      IF j = i
                      THEN [hist[j] EXCEPT !.log = Append(@, "idpResp"),
                                           !.cred = new,
                                           !.cacheAtStart = Null]
                      ELSE IF inv[j].pc # "idle"
                      THEN [hist[j] EXCEPT !.disturbed = TRUE]
                      ELSE hist[j]]
        /\ UNCHANGED now

\* a failed refresh that drops the cached credential before it throws
IdpFailureClearsCache(i, f) ==
    /\ Throw(i, AuthErrorMessage(f.status, f.text))
    /\ hist' = [hist EXCEPT ![i].log = Append(@, "idpResp"),
                            ![i].idpFailure = Some(f)]
    /\ tokenData' = Null
    /\ UNCHANGED <<now, applied>>

\* the token endpoint answers with a non-success status: getToken throws
IdpFailure(i, f) ==
    /\ Throw(i, AuthErrorMessage(f.status, f.text))
    /\ hist' = [hist EXCEPT ![i].log = Append(@, "idpResp"),
                            ![i].idpFailure = Some(f)]
    /\ UNCHANGED <<now, tokenData, applied>>

\* await fetch(token endpoint) settles: 200, a non-success status, or a rejection
IdpRespond(i) ==
    /\ inv[i].pc = "awaitIdp"
    /\ \/ \E data \in OAuthTokens : IdpSuccess(i, data)
       \/ \E f \in IdpFailures : IdpFailure(i, f)
       \/ /\ Throw(i, FetchFailedMessage)
          /\ hist' = Logged(i, "idpRejected")
          /\ UNCHANGED <<now, tokenData, applied>>

\* request() resumes with the token and POSTs the body to the data service
SendData(i) ==
    /\ inv[i].pc = "haveToken"
    /\ inv' = [inv EXCEPT ![i].pc = "awaitData"]
    /\ hist' = [hist EXCEPT
                  ![i].log = Append(@, "dataReq"),
                  ![i].sent = Some([token |-> Val(inv[i].token),
                                    body |-> inv[i].body])]
    /\ UNCHANGED <<now, tokenData, applied>>

\* the data service answers 200 with `games`: searchGames / getGameDetails
\* return and the handler renders the result
DataSuccess(i, games) ==
    LET args == inv[i].req.args
    IN  /\ IF inv[i].req.name = "search_games"
           THEN inv' = [inv EXCEPT
                          ![i].pc = "done",
                          ![i].ret = Some(games),
                          ![i].result = Some(SearchResult(Val(args.query), games))]
           ELSE inv' = [inv EXCEPT
                          ![i].pc = "done",
                          ![i].ret = Some(FirstOrNull(games)),
                          ![i].result = Some(DetailsResult(Val(args.game_id),
                                                           FirstOrNull(games)))]
        /\ hist' = [hist EXCEPT ![i].log = Append(@, "dataResp"),
                                ![i].answer = Some(games)]
        /\ UNCHANGED <<now, tokenData, applied>>

\* the data service answers with a non-success status: request() throws
DataFailure(i, f) ==
    /\ Throw(i, ApiErrorMessage(f.status, f.text))
    /\ hist' = Logged(i, "dataResp")
    /\ UNCHANGED <<now, tokenData, applied>>

\* await fetch(data service) settles
DataRespond(i, arrays) ==
    /\ inv[i].pc = "awaitData"
    /\ \/ \E games \in arrays : DataSuccess(i, games)
       \/ \E f \in ApiFailures : DataFailure(i, f)
       \/ /\ Throw(i, FetchFailedMessage)
          /\ hist' = Logged(i, "dataRejected")
          /\ UNCHANGED <<now, tokenData, applied>>

\* the result has gone back to the caller; the slot serves the next invocation
Return(i) ==
    /\ inv[i].pc = "done"
    /\ inv' = [inv EXCEPT ![i] = IdleInv]
    /\ hist' = [hist EXCEPT ![i] = IdleHist]
    /\ UNCHANGED <<now, tokenData, applied>>

\* Date.now() moves on
Tick ==
    /\ now + TickMs <= MaxTicks * TickMs
    /\ now' = now + TickMs
    /\ UNCHANGED <<tokenData, inv, hist, applied>>

Step(i, requests, arrays) ==
    \/ \E r \in requests : Call(i, r)
    \/ IdpRespond(i)
    \/ SendData(i)
    \/ DataRespond(i, arrays)
    \/ Return(i)

\* the answers of the data service two concurrent invocations are driven with
ConcurrentArrays == {g \in GameArrays : Len(g) = 0}

\* two invocations in flight on the one client
Next == (\E i \in Inv : Step(i, ConcurrentRequests, ConcurrentArrays)) \/ Tick

Spec == Init /\ [][Next]_vars

\* one invocation at a time, over every request and every answer
SeqNext == Step(1, AllRequests, GameArrays) \/ Tick

SeqSpec == Init /\ [][SeqNext]_vars

----------------------------------------------------------------------------
(* Reading an operation's history *)

Count(log, event) == Cardinality({k \in 1..Len(log) : log[k] = event})

Precedes(log, a, b) ==
    \A kb \in 1..Len(log) :
        log[kb] = b => \E ka \in 1..(kb - 1) : log[ka] = a

\* a client operation (searchGames or getGameDetails) has started
Started(i) == hist[i].log # <<>>

Range(s) == {s[k] : k \in 1..Len(s)}

\* the operation has had a 200 answer from the token endpoint
Refreshed(i) == Count(hist[i].log, "idpResp") = 1 /\ hist[i].idpFailure = Null

\* the request carries the argument its tool requires
Supplied(r) ==
    IF r.name = "search_games" THEN r.args.query # Null ELSE r.args.game_id # Null

RequiredParam(r) == IF r.name = "search_games" THEN "query" ELSE "game_id"

\* q with every " replaced by \"
RECURSIVE QuotesReplaced(_)
QuotesReplaced(q) ==
    IF q = <<>> THEN <<>>
    ELSE (IF Head(q) = DQ THEN <<BS, DQ>> ELSE <<Head(q)>>) \o QuotesReplaced(Tail(q))

\* the position of the quote that closes the literal opened at position 1,
\* a backslash escaping the character after it; 0 when nothing closes it
RECURSIVE ClosingQuote(_, _)
ClosingQuote(s, k) ==
    IF k > Len(s) THEN 0
    ELSE IF s[k] = BS THEN ClosingQuote(s, k + 2)
    ELSE IF s[k] = DQ THEN k
    ELSE ClosingQuote(s, k + 1)

----------------------------------------------------------------------------
(* C1  Cache hit.  An operation that starts while a credential is cached   *)
(* with now < expiresAt - 300000 sends no request to the token endpoint,   *)
(* its data request carries the token that was cached when it started, and *)
(* it leaves the cached credential as it was.                              *)

CacheHitSendsNoTokenRequest ==
    \A i \in Inv :
        (Started(i) /\ hist[i].usableAtStart) =>
            /\ Count(hist[i].log, "idpReq") = 0
            /\ hist[i].cacheAtStart # Null
            /\ hist[i].sent # Null =>
                   Val(hist[i].sent).token = Val(hist[i].cacheAtStart).token
            /\ ~hist[i].disturbed => tokenData = hist[i].cacheAtStart

\* an operation that started on a usable credential, later than the
\* credential was stored, has sent its data request and has returned
CacheHitWitness ==
    \E i \in Inv :
        /\ hist[i].usableAtStart
        /\ inv[i].pc = "done"
        /\ hist[i].sent # Null
        /\ hist[i].log = <<"check", "dataReq", "dataResp">>
        /\ now > 0

----------------------------------------------------------------------------
(* C2  Refresh ordering.  An operation that starts while no credential is  *)
(* cached, or while now >= expiresAt - 300000, sends exactly one request   *)
(* to the token endpoint and has that request's response before it sends   *)
(* its data request; no operation sends a data request before its          *)
(* credential check, and none sends more than one data request.            *)

RefreshPrecedesDataRequest ==
    \A i \in Inv :
        Started(i) =>
            /\ hist[i].log[1] = "check"
            /\ Count(hist[i].log, "check") = 1
            /\ Count(hist[i].log, "dataReq") <= 1
            /\ ~hist[i].usableAtStart =>
                   /\ Count(hist[i].log, "idpReq") = 1
                   /\ Precedes(hist[i].log, "idpReq", "idpResp")
                   /\ Precedes(hist[i].log, "idpResp", "dataReq")

\* an operation that started without a usable credential has refreshed,
\* queried and returned
RefreshWitness ==
    \E i \in Inv :
        /\ ~hist[i].usableAtStart
        /\ inv[i].pc = "done"
        /\ hist[i].log = <<"check", "idpReq", "idpResp", "dataReq", "dataResp">>

----------------------------------------------------------------------------
(* C3  Every data request carries a usable credential: at the step that   *)
(* sends it, now is more than 300000 ms before the expiresAt of the        *)
(* credential its token comes from.                                        *)

DataRequestCarriesUsableCredential ==
    [][\A i \in Inv :
          (inv[i].pc = "haveToken" /\ inv'[i].pc = "awaitData") =>
              MoreThanMarginLeft(hist[i].cred, now)]_vars

----------------------------------------------------------------------------
(* C4  Failed refresh.  When the token endpoint answers with a non-success *)
(* status, the invocation returns an error whose text carries the status   *)
(* and the response body, the operation has sent no data request, and the  *)
(* cached credential is what it was when the operation started.            *)

FailedRefreshChangesNothing ==
    \A i \in Inv :
        hist[i].idpFailure # Null =>
            /\ inv[i].pc = "done"
            /\ inv[i].result # Null
            /\ Val(inv[i].result).isError
            /\ ToString(Val(hist[i].idpFailure).status) \in Range(Val(inv[i].result).text)
            /\ Val(hist[i].idpFailure).text \in Range(Val(inv[i].result).text)
            /\ Count(hist[i].log, "dataReq") = 0
            /\ hist[i].sent = Null
            /\ ~hist[i].disturbed => tokenData = hist[i].cacheAtStart

\* a refresh of an expired credential has failed and the old credential is
\* still the cached one
FailedRefreshWitness ==
    \E i \in Inv :
        /\ hist[i].idpFailure # Null
        /\ hist[i].cacheAtStart # Null
        /\ tokenData = hist[i].cacheAtStart
        /\ ~hist[i].disturbed

----------------------------------------------------------------------------
(* C10  Concurrent refresh.  Every operation waiting for the token         *)
(* endpoint has a request of its own in flight, however many others wait   *)
(* too; a data request sent after a refresh carries the token of the       *)
(* operation's own token response; and the cached credential is always     *)
(* either absent or exactly the pair computed from the response applied    *)
(* last, whatever the pair it replaced.                                    *)

LastWriterWins ==
    /\ tokenData = applied
    /\ \A i \in Inv :
        /\ inv[i].pc = "awaitIdp" => Count(hist[i].log, "idpReq") = 1
        /\ (Refreshed(i) /\ hist[i].sent # Null) =>
               Val(hist[i].sent).token = Val(hist[i].cred).token

\* two operations each started before the other's token response was
\* applied; both have sent their data requests, with different tokens; the
\* cached pair is the one applied last and expires before the one it replaced
LastWriterWinsWitness ==
    \E i, j \in Inv :
        /\ i # j
        /\ Refreshed(i) /\ Refreshed(j)
        /\ hist[i].disturbed /\ hist[j].disturbed
        /\ hist[i].sent # Null /\ hist[j].sent # Null
        /\ Val(hist[i].sent).token # Val(hist[j].sent).token
        /\ tokenData = hist[j].cred
        /\ Val(hist[j].cred).expiresAt < Val(hist[i].cred).expiresAt

----------------------------------------------------------------------------
(* C5  Validation before network.  search_games without query and          *)
(* get_game_details without game_id return an error result, send nothing   *)
(* and leave the cached credential alone; an invocation that supplies the  *)
(* argument is not answered that the argument is required.                 *)

ValidationBeforeNetwork ==
    \A i \in Inv :
        (inv[i].pc = "done" /\ inv[i].req.name \in {"search_games", "get_game_details"}) =>
            LET r == inv[i].req
                result == Val(inv[i].result)
            IN  /\ ~Supplied(r) =>
                       /\ result.isError
                       /\ hist[i].log = <<>>
                       /\ hist[i].sent = Null
                       /\ tokenData = hist[i].cacheAtStart
                /\ Supplied(r) =>
                       result.text # <<"Error: ", RequiredParam(r), " parameter is required">>

----------------------------------------------------------------------------
(* C6  Error rendering.  An invocation that has ended has a result; the    *)
(* text of a result marked as an error begins with "Error: "; a 200 answer *)
(* with zero records gives a result that is not marked as an error.        *)

ErrorsRenderWithErrorPrefix ==
    \A i \in Inv :
        inv[i].pc = "done" =>
            /\ inv[i].result # Null
            /\ Val(inv[i].result).isError => Head(Val(inv[i].result).text) = "Error: "
            /\ hist[i].answer = Some(<<>>) => ~Val(inv[i].result).isError

----------------------------------------------------------------------------
(* C7  getGameDetails.  For a 200 answer that is a sequence of records the *)
(* operation returns null when the sequence is empty and its first record  *)
(* otherwise, and the invocation's result is not marked as an error.       *)

DetailsReturnsFirstOrNull ==
    \A i \in Inv :
        (inv[i].req.name = "get_game_details" /\ hist[i].answer # Null) =>
            LET games == Val(hist[i].answer)
            IN  /\ inv[i].ret # Null
                /\ Len(games) = 0 => Val(inv[i].ret) = Null
                /\ Len(games) > 0 => Val(inv[i].ret) = Some(games[1])
                /\ ~Val(inv[i].result).isError

\* getGameDetails has returned from an answer of two different records
DetailsWitness ==
    \E i \in Inv :
        /\ inv[i].req.name = "get_game_details"
        /\ hist[i].answer # Null
        /\ Len(Val(hist[i].answer)) >= 2
        /\ Val(hist[i].answer)[1] # Val(hist[i].answer)[2]
        /\ inv[i].ret = Some(Some(Val(hist[i].answer)[1]))

----------------------------------------------------------------------------
(* C8  Query escaping.  The string literal of a search request is the      *)
(* query with every " replaced by \", between the two quotes the client    *)
(* adds, and it is closed by the last of them and by nothing before.       *)

SearchLiteralWellFormed ==
    \A i \in Inv :
        (inv[i].req.name = "search_games" /\ hist[i].sent # Null) =>
            LET literal == Val(hist[i].sent).body.literal
                q == Val(inv[i].req.args.query)
            IN  /\ literal = <<DQ>> \o QuotesReplaced(q) \o <<DQ>>
                /\ ClosingQuote(literal, 2) = Len(literal)

----------------------------------------------------------------------------
(* C9  Limit.  The limit written into a search request is 10 when the      *)
(* caller gives none, and is a whole number from 1 to 50 in every case.    *)

LimitIsUsableCount ==
    \A i \in Inv :
        (inv[i].req.name = "search_games" /\ hist[i].sent # Null) =>
            LET limit == Val(hist[i].sent).body.limit
            IN  /\ inv[i].req.args.limit = Null => limit = 10
                /\ limit <= 50
                /\ limit >= 1

====
